---- MODULE Spec2Model ----
(***************************************************************************)
(* Model of the Python code generator of the Gleam compiler                *)
(* (compiler-core/src/python.rs, python/imports.rs, python/expression.rs). *)
(*                                                                         *)
(* Representation.  A Rust `&str`/`EcoString` that the generator only      *)
(* compares, escapes or concatenates is a TLA+ string.  The module path of *)
(* an `import` declaration, which the generator splits on '/', and the     *)
(* value of a string literal, in which it replaces '\n', are sequences of  *)
(* pieces so that the split and the replacement are computed.              *)
(* `Option<T>` is a sequence: None is <<>> and Some(v) is <<v>>.           *)
(* A `Document` is the sequence of the text pieces it is built from, in    *)
(* order.  A panic (`todo!`, `unreachable!`, `assert!`) ends the run with  *)
(* result "panic": module() returns nothing to its caller.                 *)
(***************************************************************************)
EXTENDS Integers, Sequences, FiniteSets, TLC

None == <<>>
Some(v) == <<v>>
IsSome(o) == o # <<>>
Unwrap(o) == o[1]

(***************************************************************************)
(* Bounds of the model.                                                    *)
(***************************************************************************)
MaxDefs == 2
MaxArgs == 3
MaxUnqualified == 2

(***************************************************************************)
(* Identifier policy (python.rs).                                          *)
(***************************************************************************)
PythonKeywords ==
    { "False", "None", "True", "and", "as", "assert", "async", "await",
      "break", "class", "continue", "def", "del", "elif", "else", "except",
      "finally", "for", "from", "global", "if", "import", "in", "is",
      "lambda", "nonlocal", "not", "or", "pass", "raise", "return", "try",
      "while", "with", "yield" }

\* A keyword list that misses `if`.
is_usable_python_identifier_m(word) == ~(word \in (PythonKeywords \ {"if"}))

is_usable_python_identifier(word) == ~(word \in PythonKeywords)

escape_identifier(word) == word \o "_"

maybe_escape_identifier_doc(word) ==
    IF is_usable_python_identifier(word)
    THEN word
    ELSE escape_identifier(word)

(***************************************************************************)
(* str::split('/') and [&str]::join(".") as register_import uses them.     *)
(***************************************************************************)
\* A split whose separator never matches.
RECURSIVE split_m(_)
split_m(s) ==
    IF s = <<>> THEN <<"">> ELSE <<Head(s) \o Head(split_m(Tail(s)))>>

RECURSIVE split(_)
split(s) ==
    IF s = <<>>
    THEN <<"">>
    ELSE LET rest == split(Tail(s)) IN
         IF Head(s) = "/"
         THEN <<"">> \o rest
         ELSE <<Head(s) \o Head(rest)>> \o Tail(rest)

RECURSIVE join(_, _)
join(parts, sep) ==
    IF parts = <<>> THEN ""
    ELSE IF Len(parts) = 1 THEN parts[1]
    ELSE parts[1] \o sep \o join(Tail(parts), sep)

(***************************************************************************)
(* imports.rs: Member, Import, Imports.                                    *)
(***************************************************************************)
Member_new(name, alias) == [name |-> name, alias |-> alias]

Import_new(from, names) == [from |-> from, names |-> names]

Imports_new == <<>>

\* A registration that adds the members to the entry the path already has.
register_module_m(imports, from, names) ==
    IF \E i \in 1..Len(imports) : imports[i].from = from
    THEN [i \in 1..Len(imports) |->
            IF imports[i].from = from
            THEN [imports[i] EXCEPT !.names = @ \o names]
            ELSE imports[i]]
    ELSE Append(imports, [from |-> from, names |-> names])

\* Imports::register_module: a new Import is pushed for every call.
register_module(imports, from, names) == Append(imports, Import_new(from, names))

\* The members register_import builds from the unqualified imports.
UnqualifiedMembers(names) ==
    [i \in 1..Len(names) |->
        Member_new(maybe_escape_identifier_doc(names[i].name), names[i].as_name)]

\* Generator::register_import.  The arms of the match, in the order of the
\* source; the result is the imports table, or a panic.
register_import(imports, module, as_name, unqualified) ==
    LET path_parts == split(module)
        n == Len(path_parts)
        last == path_parts[n]
        parts == SubSeq(path_parts, 1, n - 1)
        ok(t) == [panic |-> FALSE, imports |-> t]
        fatal == [panic |-> TRUE, imports |-> imports]
    IN  IF n = 0 THEN fatal
        ELSE IF n = 1 /\ as_name = None /\ unqualified = <<>>
            THEN ok(register_module(imports, last, <<>>))
        ELSE IF n = 1 /\ as_name = None
            THEN ok(register_module(imports, last, UnqualifiedMembers(unqualified)))
        ELSE IF IsSome(as_name) /\ Unwrap(as_name).kind = "Discard" /\ unqualified = <<>>
            THEN ok(imports)
        ELSE IF n = 1 /\ IsSome(as_name) /\ Unwrap(as_name).kind = "Variable"
                /\ unqualified = <<>>
            THEN ok(register_module(imports, "",
                    <<Member_new(last, Some(Unwrap(as_name).name))>>))
        ELSE IF as_name = None /\ unqualified = <<>>
            THEN ok(register_module(imports, join(parts, "."),
                    <<Member_new(last, None)>>))
        ELSE IF IsSome(as_name) /\ Unwrap(as_name).kind = "Variable"
                /\ unqualified = <<>>
            THEN ok(register_module(imports, join(parts, "."),
                    <<Member_new(last, Some(Unwrap(as_name).name))>>))
        ELSE IF IsSome(as_name)
            THEN fatal
        ELSE ok(register_module(imports, join(path_parts, "."),
                    UnqualifiedMembers(unqualified)))

\* The alias left out whenever the local name is the foreign symbol.
register_external_function_m(imports, name, module, fun) ==
    register_module(imports, module,
        <<Member_new(fun, IF name = fun THEN None
                          ELSE Some(maybe_escape_identifier_doc(name)))>>)

\* Generator::register_external_function.
register_external_function(imports, name, module, fun) ==
    LET needs_escaping == ~is_usable_python_identifier(name)
        member == Member_new(fun,
                    IF name = fun /\ ~needs_escaping THEN None
                    ELSE IF needs_escaping THEN Some(escape_identifier(name))
                    ELSE Some(name))
    IN  register_module(imports, module, <<member>>)

(***************************************************************************)
(* Documents (crate::pretty).  A document is the sequence of its text      *)
(* pieces.  pretty::line() is the piece "\n"; a break_(broken, unbroken)   *)
(* is written in its unbroken form; the indentation that nest puts after a *)
(* line break is not written.                                              *)
(***************************************************************************)
line == "\n"

RECURSIVE concat(_)
concat(docs) == IF docs = <<>> THEN <<>> ELSE Head(docs) \o concat(Tail(docs))

\* Itertools::intersperse followed by concatenation of the documents.
RECURSIVE intersperse(_, _)
intersperse(docs, sep) ==
    IF docs = <<>> THEN <<>>
    ELSE IF Len(docs) = 1 THEN docs[1]
    ELSE docs[1] \o sep \o intersperse(Tail(docs), sep)

(***************************************************************************)
(* expression.rs: the per-function generator.                              *)
(***************************************************************************)
\* Every identifier the modelled programs use.
Names == { "f", "g", "x", "c", "if" }

\* An empty im::HashMap<EcoString, usize>: no name has a counter.
EmptyScope == [n \in Names |-> None]

insert(scope, name, n) == [scope EXCEPT ![name] = Some(n)]

\* expression::Generator::new
ExpressionGenerator_new(function_name, function_arguments, current_scope_vars) ==
    LET named == { Unwrap(function_arguments[i]) :
                      i \in { j \in 1..Len(function_arguments) :
                                 IsSome(function_arguments[j]) } }
    IN  [ function_name |-> IF function_name \in named THEN None
                            ELSE Some(function_name),
          function_arguments |-> function_arguments,
          tail_recursion_used |-> FALSE,
          current_scope_vars |->
              [n \in Names |-> IF n \in named THEN Some(0)
                               ELSE current_scope_vars[n]],
          function_position |-> "Tail",
          scope_position |-> "Tail" ]

Ok(doc, gen) == [res |-> "ok", doc |-> doc, gen |-> gen]
Panic(gen) == [res |-> "panic", doc |-> <<>>, gen |-> gen]

\* Generator::local_var
local_var(gen, name) ==
    LET n == gen.current_scope_vars[name] IN
    IF n = None
    THEN Ok(<<maybe_escape_identifier_doc(name)>>,
            [gen EXCEPT !.current_scope_vars = insert(@, name, 0)])
    ELSE IF Unwrap(n) = 0
    THEN Ok(<<maybe_escape_identifier_doc(name)>>, gen)
    ELSE Ok(<<name \o "$" \o ToString(Unwrap(n))>>, gen)

\* Generator::variable
variable(gen, name, constructor) ==
    IF constructor \in { "ModuleFn", "ModuleConstant", "LocalVariable" }
    THEN local_var(gen, name)
    ELSE Panic(gen)

\* expression::string
RECURSIVE replace_newline(_)
replace_newline(value) ==
    IF value = <<>> THEN ""
    ELSE (IF Head(value) = "\n" THEN "\\n" ELSE Head(value))
            \o replace_newline(Tail(value))

contains_newline(value) == \E i \in 1..Len(value) : value[i] = "\n"

string(value) ==
    IF contains_newline(value)
    THEN <<"\"", replace_newline(value), "\"">>
    ELSE <<"\"", join(value, ""), "\"">>

\* expression::call_arguments
call_arguments(elements) ==
    LET joined == intersperse(elements, <<", ">>) IN
    IF joined = <<>>
    THEN <<"()">>
    ELSE <<"(", "">> \o joined \o <<"", ")">>

RECURSIVE expression(_, _)
RECURSIVE lower_arguments(_, _, _)
RECURSIVE call(_, _, _)
RECURSIVE call_with_doc_args(_, _, _)

\* The `arguments.iter().map(|e| self.expression(&e.value)).try_collect()?`
\* of Generator::call: left to right, stopping at the first failure.
lower_arguments(gen, arguments, docs) ==
    IF arguments = <<>>
    THEN [res |-> "ok", doc |-> docs, gen |-> gen]
    ELSE LET r == expression(gen, Head(arguments)) IN
         IF r.res # "ok" THEN r
         ELSE lower_arguments(r.gen, Tail(arguments), Append(docs, r.doc))

\* Generator::call
call(gen, fun, arguments) ==
    LET r == lower_arguments(gen, arguments, <<>>) IN
    IF r.res # "ok" THEN r
    ELSE call_with_doc_args(r.gen, fun, r.doc)

\* Generator::call_with_doc_args
call_with_doc_args(gen, fun, arguments) ==
    IF fun.kind = "Var"
    THEN LET fun_doc == expression(gen, fun) IN
         IF fun_doc.res # "ok" THEN fun_doc
         ELSE Ok(fun_doc.doc \o call_arguments(arguments), fun_doc.gen)
    ELSE Panic(gen)

\* Generator::expression
expression(gen, e) ==
    IF e.kind = "String" THEN Ok(string(e.value), gen)
    ELSE IF e.kind = "Call" THEN call(gen, e.fun, e.args)
    ELSE IF e.kind = "Var" THEN variable(gen, e.name, e.constructor)
    ELSE Panic(gen)

\* Generator::statement (expression.rs)
statement(gen, s) ==
    IF s.kind = "Expression" THEN expression(gen, s.expression)
    ELSE IF s.kind = "Assignment" THEN Panic(gen)
    ELSE Panic(gen)

\* Generator::statements: every statement's document followed by a line.
RECURSIVE statements(_, _)
statements(gen, body) ==
    IF body = <<>>
    THEN Ok(<<>>, gen)
    ELSE LET r == statement(gen, Head(body)) IN
         IF r.res # "ok" THEN r
         ELSE LET rest == statements(r.gen, Tail(body)) IN
              IF rest.res # "ok" THEN rest
              ELSE Ok(r.doc \o <<line>> \o rest.doc, rest.gen)

\* Generator::function_body
function_body(gen, body) == statements(gen, body)

(***************************************************************************)
(* python.rs: function headers.                                            *)
(***************************************************************************)
\* A discard counter that counts every parameter.
RECURSIVE fun_args_from_m(_, _, _)
fun_args_from_m(args, tail_recursion_used, discards) ==
    IF args = <<>> THEN <<>>
    ELSE LET a == Head(args) IN
         << <<IF a = None
              THEN (IF discards = 0 THEN "_" ELSE "_" \o ToString(discards))
              ELSE IF tail_recursion_used THEN "loop$" \o Unwrap(a)
              ELSE maybe_escape_identifier_doc(Unwrap(a))>> >>
            \o fun_args_from_m(Tail(args), tail_recursion_used, discards + 1)

\* The documents fun_args hands to wrap_args, one per parameter.  `discards`
\* counts the unnamed parameters met so far.
RECURSIVE fun_args_from(_, _, _)
fun_args_from(args, tail_recursion_used, discards) ==
    IF args = <<>> THEN <<>>
    ELSE LET a == Head(args) IN
         IF a = None
         THEN << <<IF discards = 0 THEN "_" ELSE "_" \o ToString(discards)>> >>
                 \o fun_args_from(Tail(args), tail_recursion_used, discards + 1)
         ELSE << <<IF tail_recursion_used
                   THEN "loop$" \o Unwrap(a)
                   ELSE maybe_escape_identifier_doc(Unwrap(a))>> >>
                 \o fun_args_from(Tail(args), tail_recursion_used, discards)

\* wrap_args: "(" break args joined by break(",", ", ") break ")"
wrap_args(args) == <<"(", "">> \o intersperse(args, <<", ">>) \o <<"", ")">>

fun_args(args, tail_recursion_used) ==
    wrap_args(fun_args_from(args, tail_recursion_used, 0))

(***************************************************************************)
(* imports.rs: rendering of the imports table.                             *)
(***************************************************************************)
\* Member::into_doc
Member_into_doc(m) ==
    IF m.alias = None THEN <<m.name>> ELSE <<m.name, " as ", Unwrap(m.alias)>>

\* Import::into_doc; the assertion of the blank `from` is a panic.
Import_asserts(import) == import.from = "" => Len(import.names) = 1

Import_into_doc(import) ==
    IF import.from = ""
    THEN <<"import ">> \o Member_into_doc(import.names[1])
    ELSE IF import.names = <<>>
    THEN <<"import ", import.from>>
    ELSE <<"from ", import.from, " import (", "">>
            \o intersperse([i \in 1..Len(import.names) |->
                               Member_into_doc(import.names[i])], <<", ">>)
            \o <<"", ")", line>>

\* String::cmp on the module paths that occur: their lexicographic order.
PathOrder == <<"", "a", "a.b", "a.b.c", "m">>

\* Itertools::sorted_by(|a, b| a.from.cmp(&b.from)): a stable sort.
RECURSIVE sorted_by_from(_, _)
sorted_by_from(imports, order) ==
    IF order = <<>> THEN <<>>
    ELSE SelectSeq(imports, LAMBDA i : i.from = Head(order))
            \o sorted_by_from(imports, Tail(order))

\* Imports::into_doc
Imports_into_doc(imports) ==
    IF Len(imports) = 0
    THEN <<>>
    ELSE LET sorted == sorted_by_from(imports, PathOrder) IN
         concat([i \in 1..Len(sorted) |-> Import_into_doc(sorted[i])])
            \o <<line, line>>

Imports_panics(imports) ==
    \E i \in 1..Len(imports) : ~Import_asserts(imports[i])

(***************************************************************************)
(* The typed modules handed to the generator (crate::ast).                 *)
(***************************************************************************)
\* The sequences over S of length at most n.
SeqUpTo(S, n) == UNION { [1..k -> S] : k \in 0..n }

StringExpr(value) == [kind |-> "String", value |-> value]
VarExpr(name, constructor) ==
    [kind |-> "Var", name |-> name, constructor |-> constructor]
CallExpr(fun, args) == [kind |-> "Call", fun |-> fun, args |-> args]
IntExpr == [kind |-> "Int"]

ExpressionStmt(e) == [kind |-> "Expression", expression |-> e]
AssignmentStmt(name, e) == [kind |-> "Assignment", name |-> name, value |-> e]
UseStmt == [kind |-> "Use"]

\* Function bodies: supported ones, and ones with each construct the
\* generator has no rule for.
Bodies ==
    { <<ExpressionStmt(StringExpr(<<"a">>))>>,
      <<ExpressionStmt(VarExpr("x", "LocalVariable"))>>,
      <<ExpressionStmt(VarExpr("if", "LocalVariable"))>>,
      <<ExpressionStmt(VarExpr("c", "Record"))>>,
      <<ExpressionStmt(CallExpr(VarExpr("f", "ModuleFn"), <<>>))>>,
      <<ExpressionStmt(CallExpr(VarExpr("g", "ModuleFn"),
            <<VarExpr("x", "LocalVariable"), StringExpr(<<"a", "\n", "b">>)>>))>>,
      <<ExpressionStmt(CallExpr(VarExpr("g", "ModuleFn"),
            <<CallExpr(VarExpr("f", "ModuleFn"), <<>>)>>))>>,
      <<ExpressionStmt(CallExpr(IntExpr, <<>>))>>,
      <<ExpressionStmt(IntExpr)>>,
      <<UseStmt>>,
      <<AssignmentStmt("x", StringExpr(<<"a">>)),
        AssignmentStmt("x", StringExpr(<<"b">>)),
        ExpressionStmt(VarExpr("x", "LocalVariable"))>>,
      <<ExpressionStmt(CallExpr(VarExpr("f", "ModuleFn"), <<>>)),
        ExpressionStmt(VarExpr("x", "LocalVariable"))>>,
      <<ExpressionStmt(VarExpr("x", "LocalVariable")),
        ExpressionStmt(CallExpr(VarExpr("f", "ModuleFn"),
            <<VarExpr("x", "LocalVariable")>>))>> }

Function(name, publicity, arguments, external_python, supports, body) ==
    [ kind |-> "Function", name |-> Some(name), publicity |-> publicity,
      arguments |-> arguments, external_python |-> external_python,
      supports_python |-> supports, body |-> body ]

Import(module, as_name, unqualified) ==
    [ kind |-> "Import", module |-> module, as_name |-> as_name,
      unqualified_values |-> unqualified ]

AssignName(kind, name) == [kind |-> kind, name |-> name]
UnqualifiedImport(name, as_name) == [name |-> name, as_name |-> as_name]

ImportPaths == { <<"a">>, <<"a", "/", "b">>, <<"a", "/", "b", "/", "c">> }

AsNames == { None, Some(AssignName("Discard", "_x")),
             Some(AssignName("Variable", "x")) }

UnqualifiedImports ==
    { UnqualifiedImport(n, a) : n \in {"c", "if"}, a \in {None, Some("x")} }

\* The name an unqualified import binds in the importing module.
LocalName(u) == IF IsSome(u.as_name) THEN Unwrap(u.as_name) ELSE u.name

\* The analyser accepts no two unqualified imports that bind one name.
DistinctLocalNames(us) ==
    \A i, j \in 1..Len(us) : i # j => LocalName(us[i]) # LocalName(us[j])

\* Every import declaration and every function within the bounds.
AllImports ==
    { Import(m, a, u) : m \in ImportPaths, a \in AsNames,
                        u \in { us \in SeqUpTo(UnqualifiedImports, MaxUnqualified) :
                                  DistinctLocalNames(us) } }

ArgumentNames == { None, Some("x"), Some("f"), Some("if") }

FunctionNames == { "f", "g", "if" }

ExternalBindings == { <<m, s>> : m \in {"a", "m"}, s \in {"f", "if", "s"} }

LocalFunctions ==
    { Function(n, "Public", args, None, sup, b) :
        n \in FunctionNames, args \in SeqUpTo(ArgumentNames, MaxArgs),
        sup \in BOOLEAN, b \in Bodies }

ExternalFunctions ==
    { Function(n, "Public", <<>>, Some(e), sup, <<>>) :
        n \in FunctionNames, e \in ExternalBindings, sup \in BOOLEAN }

AllDefinitions == AllImports \cup LocalFunctions \cup ExternalFunctions

\* The definitions that modules of several definitions are made of.
SomeBodies ==
    { <<ExpressionStmt(StringExpr(<<"a">>))>>,
      <<ExpressionStmt(CallExpr(VarExpr("f", "ModuleFn"), <<>>))>>,
      <<AssignmentStmt("x", StringExpr(<<"a">>)),
        ExpressionStmt(VarExpr("x", "LocalVariable"))>>,
      <<ExpressionStmt(IntExpr)>> }

SomeDefinitions ==
    { [kind |-> "TypeAlias"], [kind |-> "CustomType"], [kind |-> "ModuleConstant"] }
    \cup { Import(<<"a">>, None, <<>>),
           Import(<<"a">>, Some(AssignName("Variable", "x")), <<>>),
           Import(<<"m">>, None, <<>>),
           Import(<<"m">>, Some(AssignName("Variable", "c")), <<>>),
           Import(<<"a", "/", "b">>, None, <<UnqualifiedImport("c", None)>>),
           Import(<<"a", "/", "b">>, Some(AssignName("Variable", "x")),
                  <<UnqualifiedImport("c", None)>>) }
    \cup { Function("f", "Private", <<Some("x")>>, None, TRUE, b) : b \in SomeBodies }
    \cup { Function("g", "Public", <<>>, None, sup, <<ExpressionStmt(StringExpr(<<"a">>))>>) :
              sup \in BOOLEAN }
    \cup { Function("f", "Public", <<>>, Some(<<"m", s>>), TRUE, <<>>) :
              s \in {"f", "s"} }
    \cup { Function("g", "Public", <<>>, Some(<<"m", "s">>), TRUE, <<>>) }

\* The analyser accepts no two functions of one name and no two imports of
\* one module.
NoDuplicates(ds) ==
    \A i, j \in 1..Len(ds) :
        i # j =>
            /\ (ds[i].kind = "Function" /\ ds[j].kind = "Function")
                    => ds[i].name # ds[j].name
            /\ (ds[i].kind = "Import" /\ ds[j].kind = "Import")
                    => ds[i].module # ds[j].module

Modules ==
    { ds \in SeqUpTo(SomeDefinitions, MaxDefs) : NoDuplicates(ds) }
        \cup { <<d>> : d \in AllDefinitions }

TargetSupports == { "Enforced", "NotEnforced" }

(***************************************************************************)
(* The state of one module() call.                                         *)
(***************************************************************************)
VARIABLES
    module,          \* Generator.module: the definitions
    target_support,  \* Generator.target_support
    module_scope,    \* Generator.module_scope
    pc,              \* where compile() is
    index,           \* the definition the current loop is at
    imports,         \* the Imports that collect_imports builds
    statements_out,  \* what Generator::statement returned, per definition
    generator,       \* the expression::Generator of the last lowered function
    result,          \* "running", or how module() ended: "ok", "err", "panic"
    error,           \* the Error of an "err" result
    document,        \* the Document compile() returned, as its pieces
    output           \* the String of an "ok" result

vars == <<module, target_support, module_scope, pc, index, imports,
          statements_out, generator, result, error, document, output>>

definitions == module.definitions

Init ==
    /\ module \in { [definitions |-> ds] : ds \in Modules }
    /\ target_support \in TargetSupports
    /\ module_scope = EmptyScope
    /\ pc = "collect_imports"
    /\ index = 1
    /\ imports = Imports_new
    /\ statements_out = <<>>
    /\ generator = None
    /\ result = "running"
    /\ error = None
    /\ document = None
    /\ output = None

(***************************************************************************)
(* Generator::module_function: what it returns for a function, with the    *)
(* expression generator it used.  "none" is None, "ok" is Some(Ok(doc)),   *)
(* "err" is Some(Err(error)); "panic" does not return.                     *)
(***************************************************************************)
module_function(function, scope, support) ==
    LET name == Unwrap(function.name)
        gen0 == ExpressionGenerator_new(name, function.arguments, scope)
        head == "def "
        body == function_body(gen0, function.body)
    IN  IF body.res = "panic"
        THEN [ret |-> "panic", doc |-> None, gen |-> body.gen]
        ELSE IF body.res = "err" /\ support # "Enforced"
        THEN [ret |-> "none", doc |-> None, gen |-> body.gen]
        ELSE IF body.res = "err"
        THEN [ret |-> "err", doc |-> None, gen |-> body.gen]
        ELSE [ret |-> "ok",
              doc |-> Some([ head |-> head,
                             name |-> maybe_escape_identifier_doc(name),
                             args |-> fun_args(function.arguments,
                                               body.gen.tail_recursion_used),
                             body |-> <<line>> \o body.doc ]),
              gen |-> body.gen]

\* The document of a function definition, as docvec! lays its parts out.
function_doc(d) == <<d.head, d.name>> \o d.args \o <<":">> \o d.body \o <<line>>

\* A selector that forgets the foreign binding.
is_lowered_m(d) == d.kind = "Function" /\ d.supports_python

\* Generator::statement (python.rs): does this definition reach
\* module_function?
is_lowered(d) ==
    /\ d.kind = "Function"
    /\ d.external_python = None
    /\ d.supports_python

(***************************************************************************)
(* collect_imports: one step per definition.                               *)
(***************************************************************************)
Panicked ==
    /\ result' = "panic"
    /\ pc' = "done"

CollectImport ==
    /\ pc = "collect_imports"
    /\ index <= Len(definitions)
    /\ definitions[index].kind = "Import"
    /\ LET d == definitions[index]
           r == register_import(imports, d.module, d.as_name, d.unqualified_values)
       IN  IF r.panic
           THEN /\ Panicked
                /\ UNCHANGED <<imports, index>>
           ELSE /\ imports' = r.imports
                /\ index' = index + 1
                /\ UNCHANGED <<pc, result>>
    /\ UNCHANGED <<module, target_support, module_scope, statements_out,
                   generator, error, document, output>>

CollectExternalFunction ==
    /\ pc = "collect_imports"
    /\ index <= Len(definitions)
    /\ definitions[index].kind = "Function"
    /\ IsSome(definitions[index].name)
    /\ IsSome(definitions[index].external_python)
    /\ LET d == definitions[index]
           e == Unwrap(d.external_python)
       IN  imports' = register_external_function(imports, Unwrap(d.name), e[1], e[2])
    /\ index' = index + 1
    /\ UNCHANGED <<module, target_support, module_scope, pc, statements_out,
                   generator, result, error, document, output>>

CollectOther ==
    /\ pc = "collect_imports"
    /\ index <= Len(definitions)
    /\ LET d == definitions[index] IN
          \/ d.kind \in {"TypeAlias", "CustomType", "ModuleConstant"}
          \/ /\ d.kind = "Function"
             /\ ~(IsSome(d.name) /\ IsSome(d.external_python))
    /\ index' = index + 1
    /\ UNCHANGED <<module, target_support, module_scope, pc, imports,
                   statements_out, generator, result, error, document, output>>

CollectDone ==
    /\ pc = "collect_imports"
    /\ index > Len(definitions)
    /\ pc' = "statements"
    /\ index' = 1
    /\ UNCHANGED <<module, target_support, module_scope, imports,
                   statements_out, generator, result, error, document, output>>

(***************************************************************************)
(* compile: the statements iterator, one step per definition, and the      *)
(* assembly of the document once it is exhausted.                          *)
(***************************************************************************)
StatementNone ==
    /\ pc = "statements"
    /\ index <= Len(definitions)
    /\ ~is_lowered(definitions[index])
    /\ statements_out' = Append(statements_out, None)
    /\ index' = index + 1
    /\ UNCHANGED <<module, target_support, module_scope, pc, imports,
                   generator, result, error, document, output>>

StatementFunction ==
    /\ pc = "statements"
    /\ index <= Len(definitions)
    /\ is_lowered(definitions[index])
    /\ LET r == module_function(definitions[index], module_scope, target_support)
       IN  /\ generator' = Some(r.gen)
           /\ IF r.ret = "panic"
              THEN /\ Panicked
                   /\ UNCHANGED <<statements_out, index, error>>
              ELSE IF r.ret = "err"
              THEN /\ result' = "err"
                   /\ pc' = "done"
                   /\ error' = Some([kind |-> "Unsupported"])
                   /\ UNCHANGED <<statements_out, index>>
              ELSE /\ statements_out' = Append(statements_out, r.doc)
                   /\ index' = index + 1
                   /\ UNCHANGED <<pc, result, error>>
    /\ UNCHANGED <<module, target_support, module_scope, imports, document, output>>

\* The documents of the definitions that yielded one, in order.
yielded_docs(outs) ==
    LET some == SelectSeq(outs, IsSome) IN
    [i \in 1..Len(some) |-> function_doc(Unwrap(some[i]))]

\* compile's docvec![imports.into_doc(), statements], then
\* Document::to_pretty_string in module().
Assemble ==
    /\ pc = "statements"
    /\ index > Len(definitions)
    /\ pc' = "done"
    /\ IF Imports_panics(imports)
       THEN /\ result' = "panic"
            /\ UNCHANGED <<document, output>>
       ELSE /\ result' = "ok"
            /\ document' = Some(Imports_into_doc(imports)
                                \o intersperse(yielded_docs(statements_out),
                                               <<line, line>>))
            /\ output' = Some(join(Unwrap(document'), ""))
    /\ UNCHANGED <<module, target_support, module_scope, index, imports,
                   statements_out, generator, error>>

Next ==
    \/ CollectImport
    \/ CollectExternalFunction
    \/ CollectOther
    \/ CollectDone
    \/ StatementNone
    \/ StatementFunction
    \/ Assemble

Spec == Init /\ [][Next]_vars

TypeOK ==
    /\ pc \in {"collect_imports", "statements", "done"}
    /\ result \in {"running", "ok", "err", "panic"}
    /\ index \in 1..(Len(definitions) + 1)
    /\ Len(statements_out) <= Len(definitions)
    /\ (result = "ok") = IsSome(output)

(***************************************************************************)
(* Vocabulary of the properties.                                           *)
(***************************************************************************)
\* The rendering the identifier policy prescribes for a source identifier.
Policy(word) == IF word \in PythonKeywords THEN word \o "_" ELSE word

\* collect_imports has gone through every definition.
Collected == pc = "statements"

\* A construct the generator has no lowering rule for occurs in the
\* expression, statement or body.
RECURSIVE ExprHasNoRule(_)
ExprHasNoRule(e) ==
    IF e.kind = "String" THEN FALSE
    ELSE IF e.kind = "Var"
    THEN ~(e.constructor \in {"ModuleFn", "ModuleConstant", "LocalVariable"})
    ELSE IF e.kind = "Call"
    THEN \/ e.fun.kind # "Var"
         \/ ExprHasNoRule(e.fun)
         \/ \E k \in 1..Len(e.args) : ExprHasNoRule(e.args[k])
    ELSE TRUE

StmtHasNoRule(st) ==
    IF st.kind = "Expression" THEN ExprHasNoRule(st.expression) ELSE TRUE

BodyHasNoRule(body) == \E k \in 1..Len(body) : StmtHasNoRule(body[k])

HasForeignBinding(d) == d.kind = "Function" /\ IsSome(d.external_python)

\* A function the definition selector retains.
Retained(d) ==
    /\ d.kind = "Function"
    /\ d.external_python = None
    /\ d.supports_python

\* The definition makes collect_imports register an entry.
Registers(d) ==
    \/ HasForeignBinding(d)
    \/ /\ d.kind = "Import"
       /\ ~(IsSome(d.as_name) /\ Unwrap(d.as_name).kind = "Discard"
            /\ d.unqualified_values = <<>>)

\* The position in the imports table of the entry definition i registered.
EntryOf(i) == Cardinality({ j \in 1..i : Registers(definitions[j]) })

(***************************************************************************)
(* C1.  After collect_imports has gone through the definitions, the        *)
(* imports table holds at most one entry per module path, and the members  *)
(* of an entry are unique by (name, alias).                                *)
(* The code pushes a new entry for every registration, so this is violated *)
(* by two functions with foreign bindings to one module.                   *)
(***************************************************************************)
C1_OneEntryPerPath ==
    Collected =>
        /\ \A i, j \in 1..Len(imports) :
              i # j => imports[i].from # imports[j].from
        /\ \A i \in 1..Len(imports) :
              \A k, l \in 1..Len(imports[i].names) :
                 k # l => imports[i].names[k] # imports[i].names[l]

(***************************************************************************)
(* C2.  With target support not enforced, a module of one retained         *)
(* function whose body has a construct without a lowering rule and one     *)
(* retained function with a supported body compiles without error, and     *)
(* only the second function is defined in the output.                      *)
(* The code panics on the first function, so this is violated.             *)
(***************************************************************************)
C2_OptionalSkipsFunction ==
    ( /\ pc = "done"
      /\ target_support = "NotEnforced"
      /\ Len(definitions) = 2
      /\ Retained(definitions[1]) /\ BodyHasNoRule(definitions[1].body)
      /\ Retained(definitions[2]) /\ ~BodyHasNoRule(definitions[2].body) )
    => /\ result = "ok"
       /\ Len(statements_out) = 2
       /\ statements_out[1] = None
       /\ IsSome(statements_out[2])
       /\ Unwrap(statements_out[2]).name = Policy(Unwrap(definitions[2].name))

(***************************************************************************)
(* C3.  With target support enforced, a module with a retained function    *)
(* whose body has a construct without a lowering rule ends with the error  *)
(* value Unsupported and no output string, never with a process abort.     *)
(* The code panics, so this is violated.                                   *)
(***************************************************************************)
C3_EnforcedReturnsUnsupported ==
    ( /\ pc = "done"
      /\ target_support = "Enforced"
      /\ \E i \in 1..Len(definitions) :
            Retained(definitions[i]) /\ BodyHasNoRule(definitions[i].body) )
    => /\ result = "err"
       /\ IsSome(error)
       /\ Unwrap(error).kind = "Unsupported"
       /\ output = None

(***************************************************************************)
(* C4.  A definition yields a local function definition iff it is a        *)
(* function without a foreign binding whose capability set supports the    *)
(* Python target and whose body lowers; a finished compilation has         *)
(* considered every definition; a function with a foreign binding yields   *)
(* none and registers exactly one member, under its binding's module;      *)
(* imports, custom types, type aliases and module constants yield none.    *)
(***************************************************************************)
C4_DefinitionSelection ==
    /\ \A i \in 1..Len(statements_out) :
          /\ IsSome(statements_out[i])
                <=> ( /\ definitions[i].kind = "Function"
                      /\ definitions[i].external_python = None
                      /\ definitions[i].supports_python
                      /\ ~BodyHasNoRule(definitions[i].body) )
          /\ HasForeignBinding(definitions[i]) => statements_out[i] = None
          /\ definitions[i].kind \in {"Import", "CustomType", "TypeAlias",
                                      "ModuleConstant"}
                => statements_out[i] = None
    /\ result = "ok" => Len(statements_out) = Len(definitions)
    /\ Collected =>
          /\ Len(imports) = EntryOf(Len(definitions))
          /\ \A i \in 1..Len(definitions) :
                HasForeignBinding(definitions[i]) =>
                   /\ Len(imports[EntryOf(i)].names) = 1
                   /\ imports[EntryOf(i)].from = Unwrap(definitions[i].external_python)[1]

\* A finished compilation in which a function with a foreign binding
\* yielded nothing and registered a member, and another function yielded
\* its definition.
C4_Witness ==
    /\ result = "ok"
    /\ \E i, j \in 1..Len(definitions) :
          /\ HasForeignBinding(definitions[i])
          /\ statements_out[i] = None
          /\ Len(imports) >= 1
          /\ IsSome(statements_out[j])

(***************************************************************************)
(* C5.  Within one function traversal the shadow counter of a name is      *)
(* incremented by each rebinding after the first, and a reference after    *)
(* the n-th rebinding (n > 0) renders as <name>$n.                         *)
(* The code has no rule for a binding (an assignment panics) and nothing   *)
(* increments a counter, so this is violated.                              *)
(***************************************************************************)
\* The number of bindings of the name among the first k statements.
Bindings(body, name, k) ==
    Cardinality({ j \in 1..k : body[j].kind = "Assignment" /\ body[j].name = name })

C5_RebindingRendersSuffix ==
    ( /\ pc = "done"
      /\ Len(definitions) = 1
      /\ Retained(definitions[1]) )
    => LET body == definitions[1].body IN
       \A k \in 1..Len(body) :
          ( /\ body[k].kind = "Expression"
            /\ body[k].expression.kind = "Var"
            /\ Bindings(body, body[k].expression.name, k) > 1 )
          => LET name == body[k].expression.name
                 n == Bindings(body, name, k) - 1
             IN  /\ IsSome(generator)
                 /\ Unwrap(generator).current_scope_vars[name] = Some(n)
                 /\ Len(statements_out) = 1
                 /\ IsSome(statements_out[1])
                 /\ \E p \in 1..Len(Unwrap(statements_out[1]).body) :
                       Unwrap(statements_out[1]).body[p] = name \o "$" \o ToString(n)

(***************************************************************************)
(* C6.  After lowering a function body, tail_recursion_used is true iff    *)
(* the body has a call in tail position whose callee is the function's own *)
(* name and no parameter has that name.                                    *)
(* The code never sets the flag, so this is violated by fn f() { f() }.    *)
(***************************************************************************)
\* The last statement of the body is a call of the function's own name.
TailSelfCall(d) ==
    /\ d.body # <<>>
    /\ LET st == d.body[Len(d.body)] IN
          /\ st.kind = "Expression"
          /\ st.expression.kind = "Call"
          /\ st.expression.fun.kind = "Var"
          /\ st.expression.fun.name = Unwrap(d.name)
    /\ \A k \in 1..Len(d.arguments) : d.arguments[k] # d.name

C6_TailRecursionFlag ==
    ( /\ Len(definitions) = 1
      /\ Retained(definitions[1])
      /\ Len(statements_out) = 1
      /\ IsSome(statements_out[1]) )
    => Unwrap(generator).tail_recursion_used = TailSelfCall(definitions[1])

(***************************************************************************)
(* C7.  The identifiers emitted at the identifier-producing sites pass     *)
(* through the identifier policy: the function name and the named          *)
(* parameters of a `def` header, the name of an unqualified imported       *)
(* member, the local name of a function with a foreign binding where it is *)
(* emitted as an alias, and a variable reference.  A reserved word is      *)
(* rendered with the suffix `_`, any other identifier unchanged.           *)
(***************************************************************************)
\* The rendering of the k-th parameter in a function's document.
ArgDoc(doc, k) == doc.args[2 * k + 1]

\* The body is one statement: a reference to a variable.
IsVarBody(body) ==
    /\ Len(body) = 1
    /\ body[1].kind = "Expression"
    /\ body[1].expression.kind = "Var"

DiscardsBefore(arguments, k) ==
    Cardinality({ j \in 1..k : arguments[j] = None })

C8_DiscardNumbering ==
    \A i \in 1..Len(statements_out) :
       IsSome(statements_out[i]) =>
          LET arguments == definitions[i].arguments
              doc == Unwrap(statements_out[i])
          IN  /\ Len(doc.args) = IF arguments = <<>> THEN 4
                                 ELSE 2 * Len(arguments) + 3
              /\ \A k \in 1..Len(arguments) :
                    arguments[k] = None =>
                       ArgDoc(doc, k) =
                          IF DiscardsBefore(arguments, k - 1) = 0 THEN "_"
                          ELSE "_" \o ToString(DiscardsBefore(arguments, k - 1))
              /\ \A k, l \in 1..Len(arguments) :
                    (k # l /\ arguments[k] = None /\ arguments[l] = None)
                       => ArgDoc(doc, k) # ArgDoc(doc, l)

\* A header was rendered for a list with a named parameter between two
\* discards.
C8_Witness ==
    \E i \in 1..Len(statements_out) :
       /\ IsSome(statements_out[i])
       /\ definitions[i].arguments = <<None, Some("x"), None>>
       /\ ArgDoc(Unwrap(statements_out[i]), 3) = "_1"

(***************************************************************************)
(* C9.  register_import registers what the decision table states, by       *)
(* segment count, alias kind and member list:                              *)
(*   one segment, no alias, no members: the module path without members;   *)
(*   no alias, members: one member per unqualified import under the        *)
(*     dot-joined full path;                                               *)
(*   discard alias, no members: nothing;                                   *)
(*   one segment, named alias, no members: the member (module, alias)      *)
(*     under the empty path;                                               *)
(*   several segments, no members: one member naming the last segment,     *)
(*     with the alias if named, under the dot-joined parent path;          *)
(*   any alias with members: fatal, nothing registered.                    *)
(***************************************************************************)
\* The segments of a module path: the pieces between the slashes.
Segments(m) == [k \in 1..((Len(m) + 1) \div 2) |-> m[2 * k - 1]]

RECURSIVE Dotted(_)
Dotted(segs) ==
    IF Len(segs) = 1 THEN segs[1]
    ELSE segs[1] \o "." \o Dotted(Tail(segs))

AliasKind(as_name) == IF as_name = None THEN "none" ELSE Unwrap(as_name).kind

\* The one member per unqualified import of the table's rows with members.
TableMembers(us) ==
    [k \in 1..Len(us) |-> [name |-> Policy(us[k].name), alias |-> us[k].as_name]]

\* What the decision table has the declaration register.
TableEntries(d) ==
    LET segs == Segments(d.module)
        n == Len(segs)
        kind == AliasKind(d.as_name)
        alias == IF kind = "Variable" THEN Some(Unwrap(d.as_name).name) ELSE None
    IN  IF d.unqualified_values # <<>>
        THEN << [from |-> Dotted(segs), names |-> TableMembers(d.unqualified_values)] >>
        ELSE IF kind = "Discard" THEN <<>>
        ELSE IF n = 1 /\ kind = "none"
        THEN << [from |-> segs[1], names |-> <<>>] >>
        ELSE IF n = 1
        THEN << [from |-> "", names |-> << [name |-> segs[1], alias |-> alias] >>] >>
        ELSE << [from |-> Dotted(SubSeq(segs, 1, n - 1)),
                 names |-> << [name |-> segs[n], alias |-> alias] >>] >>

\* The declaration has an alias and a member list.
TableFatal(d) == d.as_name # None /\ d.unqualified_values # <<>>

\* collect_imports is past the only definition of the module.
FirstCollected == Len(definitions) = 1 /\ (index > 1 \/ pc # "collect_imports")

C9_ImportDecisionTable ==
    (FirstCollected /\ definitions[1].kind = "Import") =>
        IF TableFatal(definitions[1])
        THEN result = "panic" /\ imports = <<>>
        ELSE result # "panic" /\ imports = TableEntries(definitions[1])

\* Every row of the table has been taken.
C9_Witness ==
    /\ FirstCollected
    /\ definitions[1].kind = "Import"
    /\ Len(Segments(definitions[1].module)) = 3
    /\ AliasKind(definitions[1].as_name) = "Variable"
    /\ definitions[1].unqualified_values = <<>>
    /\ imports = << [from |-> "a.b", names |-> << [name |-> "c", alias |-> Some("x")] >>] >>

(***************************************************************************)
(* C10.  A function with the foreign binding (module, symbol) and the      *)
(* local name n registers exactly one member, under the path `module`,     *)
(* whose name is `symbol` and whose alias is absent iff n = symbol and n   *)
(* is no reserved word, n_ if n is a reserved word, and n otherwise.       *)
(***************************************************************************)
C10_ExternalFunctionMember ==
    Collected =>
        \A i \in 1..Len(definitions) :
           HasForeignBinding(definitions[i]) =>
              LET n == Unwrap(definitions[i].name)
                  e == Unwrap(definitions[i].external_python)
              IN  imports[EntryOf(i)] =
                     [ from |-> e[1],
                       names |-> << [ name |-> e[2],
                                      alias |-> IF n \in PythonKeywords
                                                THEN Some(n \o "_")
                                                ELSE IF n = e[2] THEN None
                                                ELSE Some(n) ] >> ]

\* A function named by a reserved word and bound to the symbol of the same
\* name has registered its member.
C10_Witness ==
    /\ Collected
    /\ \E i \in 1..Len(definitions) :
          /\ HasForeignBinding(definitions[i])
          /\ Unwrap(definitions[i].name) = "if"
          /\ Unwrap(definitions[i].external_python)[2] = "if"
          /\ imports[EntryOf(i)].names[1].alias = Some("if_")

(***************************************************************************)
(* C11.  In the rendered import block every registered entry is its own    *)
(* import statement on its own physical line: an import statement that is  *)
(* not the first piece of the output follows a line break, there is one    *)
(* statement per entry, and a blank line stands between the last import    *)
(* statement and the first function definition.                            *)
(* Import::into_doc ends only the `from ... import (...)` form with a      *)
(* line, so two bare imports share a line and this is violated.            *)
(***************************************************************************)
\* The pieces that open an import statement.
StatementStarts == { "import ", "from " }

\* The positions in the document at which an import statement starts.
StatementPositions(doc) == { p \in 1..Len(doc) : doc[p] \in StatementStarts }

C11_OneImportPerLine ==
    result = "ok" =>
        LET doc == Unwrap(document) IN
        /\ Cardinality(StatementPositions(doc)) = Len(imports)
        /\ \A p \in StatementPositions(doc) : p > 1 => doc[p - 1] = line
        /\ \A p \in 1..Len(doc) :
              (doc[p] = "def " /\ imports # <<>>
                  /\ \A q \in 1..(p - 1) : doc[q] # "def ")
                 => p > 2 /\ doc[p - 1] = line /\ doc[p - 2] = line

(***************************************************************************)
(* C12.  The assertion of Import::into_doc never fails: whatever           *)
(* collect_imports registered, every entry of the imports table whose path *)
(* is the empty string has exactly one member, so a compilation that       *)
(* reaches the assembly of the document ends with a result and not with a  *)
(* panic, also when several single-segment imports with a named alias are  *)
(* registered.                                                             *)
(***************************************************************************)
\* compile went through every definition and assembled the document.
Assembled == pc = "done" /\ Len(statements_out) = Len(definitions)

C12_BlankFromHasOneName ==
    /\ \A i \in 1..Len(imports) :
          imports[i].from = "" => Len(imports[i].names) = 1
    /\ Assembled => result = "ok"

\* Two single-segment imports with a named alias were registered and the
\* import block was rendered.
C12_Witness ==
    /\ Assembled
    /\ result = "ok"
    /\ \E i, j \in 1..Len(imports) :
          /\ i # j
          /\ imports[i].from = ""
          /\ imports[j].from = ""

====
